---- MODULE Spec2Model ----
(***************************************************************************)
(* Model of the stream_encoder bridge: the two need_data providers of      *)
(* encoding_lib/src/data_provider_impls.rs (vec_data_provider over a       *)
(* Vec<DynamicImage>, reciever_data_provider over an mpsc Receiver), the   *)
(* producer side of the channel made by start_encoding, and the bus loop   *)
(* of encode_video.                                                        *)
(*                                                                         *)
(* The Sink (the GStreamer appsrc and pipeline bus) is the environment: it *)
(* decides when need_data is called, what push_buffer and end_of_stream    *)
(* return, and which messages arrive on the bus.                           *)
(*                                                                         *)
(* Timestamps are kept in milliseconds (the code multiplies the            *)
(* millisecond value by gst::ClockTime::MSECOND); frames are identified by *)
(* a number, the pixel content is not part of this model.                  *)
(***************************************************************************)
EXTENDS Integers, Sequences, FiniteSets, TLC

\* ------------------------------------------------------------------ bounds

\* Longest collection handed to vec_data_provider.
MaxLen == 5

\* Most frames the producer sends on the channel.
MaxSend == 4

\* The BUFFER_SIZE const generic of reciever_data_provider / start_encoding.
BUFFER_SIZE == 3

\* Most end_of_stream calls followed in one run.
MaxEos == 2

\* Most bus messages followed in one run.
MaxMsgs == 2

\* Most conversions of a callback return followed by SpecNormalizer.
MaxNorm == 3

\* Most calls of a user's need_data callback followed.
MaxCalls == 2

\* Largest frame width and height given to the pixel packer, in pixels.
MaxW == 2
MaxH == 2

\* Most calls of a user's enough_data callback followed.
MaxStops == 2

\* Most need_data calls followed by SpecConcurrent, over both threads.
MaxCCalls == 3

\* Most timestamps followed by SpecPts for one framerate.
MaxStamps == 3

\* Framerates above the milliseconds of a second tried by SpecPts.
MaxOver == 2

\* The milliseconds of a second: the 1_000 that set_pts divides by the framerate.
RateLimit == 1000

\* Most calls of State::render followed by SpecRender.
MaxRender == 3

\* Framerates tried (VideoSettings.framerate, a u64; 0 would divide by zero).
Framerates == {24, 30, 60}

\* What push_buffer / end_of_stream may return: Ok(FlowSuccess) or Err(FlowError).
SinkResults == {"Ok", "Err"}

\* The bus message kinds encode_video distinguishes; "Other" is the `_` arm.
MsgKinds == {"Eos", "Error", "Progress", "Warning", "Info", "Other"}

\* The errors a fallible callback may return (anyhow::Error values).
Errors == {"e1", "e2"}

\* What a callback of type O: Into<DataGenReturn> may return: (), an
\* anyhow::Result<()> or an Option<()>.
CallbackReturns ==
    {[shape |-> "Unit", ok |-> TRUE, err |-> "none"],
     [shape |-> "Result", ok |-> TRUE, err |-> "none"],
     [shape |-> "Option", ok |-> TRUE, err |-> "none"],
     [shape |-> "Option", ok |-> FALSE, err |-> "none"]}
    \cup {[shape |-> "Result", ok |-> FALSE, err |-> e] : e \in Errors}

\* Bytes of row padding tried: plane_stride()[0] is 4 * width + pad.
Pads == {0, 8}

\* Rows of the plane beyond the frame's height tried.
ExtraRows == {0, 1}

\* What the bytes of a fresh gst::Buffer::with_size may hold.
Fills == {170, 85}

\* The colours of source pixels: red, a pixel of four different components,
\* a half transparent blue, and a pixel of a type without alpha channel (Rgb).
Colors ==
    <<[r |-> 255, g |-> 0, b |-> 0, a |-> 255, hasA |-> TRUE],
      [r |-> 1, g |-> 2, b |-> 3, a |-> 4, hasA |-> TRUE],
      [r |-> 0, g |-> 0, b |-> 255, a |-> 128, hasA |-> TRUE],
      [r |-> 9, g |-> 8, b |-> 7, a |-> 0, hasA |-> FALSE]>>

\* The state values a caller of encode_video may give (handles, as an Arc is).
States == {"s1", "s2"}

\* The threads need_data may be called from at the same time.
ThreadIds == {1, 2}

\* The locks of the providers' state: the frame_num mutex, the receiver mutex
\* and the RwLock of the image list.
Locks == {"frame_num", "receiver", "images"}

VARIABLES
    kind,        \* which provider was registered: "vec" or "recv"
    framerate,   \* video_settings.framerate
    images,      \* the Vec<DynamicImage> behind the RwLock (vec provider)
    frame_num,   \* the u64 behind state.0
    poisoned,    \* the mutexes poisoned by a panic while they were held
    held,        \* the locks the pull thread holds
    pc,          \* pull thread: "idle", "recv" (line 36) or "push" (line 73)
    i,           \* iterations of the `for _ in 0..BUFFER_SIZE` loop completed
    buf,         \* the packed buffer waiting to be pushed (recv provider)
    chan,        \* frames queued in the mpsc channel
    senders,     \* live Sender handles of the channel
    sent,        \* frames sent so far by the producer
    mainPc,      \* the thread owning the Sender: "running", "joining", "joined"
    log,         \* every push_buffer / end_of_stream call made on the appsrc
    burst,       \* the current (or last) need_data call
    pipeline,    \* pipeline state: "Playing" or "Null"
    evPc,        \* encode_video: "loop" (bus.iter_timed) or "returned"
    msgs,        \* bus messages handled
    errorSeen,   \* an Error message has been handled
    lastMsg,     \* the kind of the last bus message handled
    state,       \* the state: S given to encode_video
    hasStop,     \* whether an enough_data callback was given (Some(func))
    passed,      \* the state handed to each call of a user's callback
    cbLog,       \* what each call of a user's need_data callback returned
    stdout,      \* the lines encode_video printed
    tpc,         \* SpecConcurrent: where each thread is in its need_data call
    owner,       \* SpecConcurrent: the thread that holds each mutex, or 0
    ti,          \* SpecConcurrent: each thread's loop counter
    tbuf,        \* SpecConcurrent: each thread's buffer waiting to be pushed
    tcall,       \* SpecConcurrent: the number of each thread's current call
    calls,       \* SpecConcurrent: the need_data calls started
    who,         \* SpecConcurrent: the call and thread behind each entry of log
    ts,          \* SpecPts: a framerate, the next index and the timestamps given
    rendered,    \* SpecRender: the calls of State::render made
    pending,     \* SpecRender: the frames held by spawned threads that did not send yet
    normLog,     \* SpecNormalizer: the callback returns converted, with the results
    pk           \* SpecPacker: one frame, the destination plane and the packing done

vars == <<kind, framerate, images, frame_num, poisoned, held, pc, i, buf, chan,
          senders, sent, mainPc, log, burst, pipeline, evPc, msgs, errorSeen, lastMsg, state, hasStop, passed, cbLog, stdout, normLog, pk, ts,
          tpc, owner, ti, tbuf, tcall, calls, who, rendered, pending>>

providerVars == <<frame_num, poisoned, held, pc, i, buf, log, burst>>
channelVars == <<chan, senders, sent, mainPc>>
busVars == <<pipeline, evPc, msgs, errorSeen, lastMsg, stdout>>
callbackVars == <<cbLog, passed>>
pureVars == <<normLog, pk, ts>>
concVars == <<tpc, owner, ti, tbuf, tcall, calls, who>>
renderVars == <<rendered, pending>>
configVars == <<kind, framerate, images, pureVars, state, hasStop, concVars, renderVars>>

NoBuf == [frame |-> 0, idx |-> 0, pts |-> 0]

\* ------------------------------------------------------- pure functions

\* Mutation: multiply before dividing, floor(i * 1000 / framerate).
PtsFloorOfProduct(fn, fr) == (fn * 1000) \div fr

\* set_pts(*frame_num * (1000 / framerate) * MSECOND), in milliseconds:
\* u64 division first, then the product.
Pts(fn, fr) == fn * (1000 \div fr)

\* Mutation: the index skips a value.
NextIndexSkips(fn) == fn + 2

\* *frame_num += 1
NextIndex(fn) == fn + 1

\* Mutation: off by one, exhaustion one element early.
VecExhaustedEarly(fn, imgs) == fn >= Len(imgs) - 1

\* *frame_num as usize == images.len()
VecExhausted(fn, imgs) == fn = Len(imgs)

\* Mutation: the disconnect is looked at before the queue, so frames still
\* queued when the last Sender goes are never returned.
RecvDropsQueued(ch, snd) ==
    IF snd = 0 THEN "Err" ELSE IF ch # <<>> THEN "Ok" ELSE "Block"

\* Mutation: a non-blocking receive, an empty channel counts as closed.
TryRecvResult(ch, snd) == IF ch # <<>> THEN "Ok" ELSE "Err"

\* std::sync::mpsc::Receiver::recv as the provider uses it: a queued frame is
\* returned even after every Sender is gone; Err only when the queue is empty
\* and no Sender is left; otherwise the call blocks.
RecvResult(ch, snd) ==
    IF ch # <<>> THEN "Ok" ELSE IF snd = 0 THEN "Err" ELSE "Block"

\* Mutation: only the index mutex is taken.
AcquiredIndexOnly == {"frame_num"}

\* let mut frame_num = state.0.lock().unwrap(); let receiver = state.1.lock().unwrap();
\* both guards live to the end of the function.
Acquired == {"frame_num", "receiver"}

\* Mutation: the else branch signals end-of-stream and goes on with the loop.
EosContinuesBurst == FALSE

\* The `return` after appsrc.end_of_stream() in the else branch.
EosEndsBurst == TRUE

\* Mutation: the loop runs one iteration too many.
LoopOneMore(n) == n <= BUFFER_SIZE

\* for _ in 0..BUFFER_SIZE: whether an iteration follows n completed ones.
LoopContinues(n) == n < BUFFER_SIZE

\* impl Into<DataGenReturn> for (), anyhow::Result<()> and Option<()>: the
\* value is wrapped in the variant of its type.
IntoDataGenReturn(o) ==
    CASE o.shape = "Unit" -> [variant |-> "Unit", ok |-> TRUE, err |-> "none"]
      [] o.shape = "Result" -> [variant |-> "Result", ok |-> o.ok, err |-> o.err]
      [] o.shape = "Option" -> [variant |-> "Option", ok |-> o.ok, err |-> "none"]

\* The message of the error made for Option(None).
NoneMsg == "Data provider callback returned a None variant"

\* Mutation: an empty Option passes as success.
IntoResultNoneOk(d) ==
    CASE d.variant = "Result" -> [ok |-> d.ok, err |-> d.err]
      [] d.variant = "Option" -> [ok |-> TRUE, err |-> "none"]
      [] d.variant = "Unit" -> [ok |-> TRUE, err |-> "none"]

\* impl Into<anyhow::Result<()>> for DataGenReturn: Result(r) => r,
\* Option(o) => o.ok_or(Error::msg(..)), Unit => Ok(()).
IntoResult(d) ==
    CASE d.variant = "Result" -> [ok |-> d.ok, err |-> d.err]
      [] d.variant = "Option" -> IF d.ok THEN [ok |-> TRUE, err |-> "none"]
                                 ELSE [ok |-> FALSE, err |-> NoneMsg]
      [] d.variant = "Unit" -> [ok |-> TRUE, err |-> "none"]

\* DataGenReturn::unwrap: r.unwrap(), o.unwrap(), or nothing for Unit.
Unwrap(d) ==
    CASE d.variant = "Result" -> IF d.ok THEN "unit" ELSE "panic"
      [] d.variant = "Option" -> IF d.ok THEN "unit" ELSE "panic"
      [] d.variant = "Unit" -> "unit"

\* Mutation: the buffer is made as long as the source image's bytes.
NewBufferOfSource(size, src, fill) == [p \in 1..(4 * Len(src)) |-> fill]

\* gst::Buffer::with_size(video_info.size()): size bytes of whatever the
\* memory held, made before the source image is looked at.
NewBuffer(size, src, fill) == [p \in 1..size |-> fill]

\* The alpha a conversion to a pixel type with alpha gives (to_bgra,
\* into_rgba8): the pixel's own, or the largest value when its type has none.
Alpha(px) == IF px.hasA THEN px.a ELSE 255

\* image.pixels().map(|p| p.to_bgra()): each pixel as [blue, green, red, alpha].
RecvPixels(src) ==
    [k \in DOMAIN src |-> <<src[k].b, src[k].g, src[k].r, Alpha(src[k])>>]

\* image.clone().into_rgba8().pixels().map(|p| p.0): each pixel as the array
\* of an Rgba<u8>, [red, green, blue, alpha].
VecPixels(src) ==
    [k \in DOMAIN src |-> <<src[k].r, src[k].g, src[k].b, Alpha(src[k])>>]

\* Four bytes stored at the byte offset off of the plane.
Write(dest, off, b4) ==
    [p \in DOMAIN dest |-> IF p \in (off + 1)..(off + 4) THEN b4[p - off] ELSE dest[p]]

\* Mutation: vec_data_provider copies the fourth byte as well.
WritePixelCopiesAlpha(prov, dest, off, fp) ==
    Write(dest, off, <<fp[1], fp[2], fp[3], fp[4]>>)

\* The body of if let Some(frame_pixels): reciever_data_provider copies all
\* four bytes, vec_data_provider copies three and stores 0 in the fourth.
WritePixel(prov, dest, off, fp) ==
    IF prov = "recv" THEN Write(dest, off, <<fp[1], fp[2], fp[3], fp[4]>>)
    ELSE Write(dest, off, <<fp[1], fp[2], fp[3], 0>>)

\* Mutation: a pixel the source does not have is written as zeroes.
OnNoneZeroes(dest, off) == Write(dest, off, <<0, 0, 0, 0>>)

\* pixels.next() gave None: the if let has no else, nothing is written.
OnNone(dest, off) == dest

\* Mutation: the pixels of a line are the chunks of the whole line, padding
\* included.
SlotsWholeLine(width, height, stride, planeLen) ==
    LET lines == IF planeLen \div stride < height THEN planeLen \div stride ELSE height
        perLine == stride \div 4
    IN  [n \in 1..(lines * perLine) |->
            ((n - 1) \div perLine) * stride + 4 * ((n - 1) % perLine)]

\* The byte offsets of the pixels the two loops visit, in the order visited:
\* plane.chunks_exact_mut(stride).take(height) gives the lines, and
\* line[..(4 * width)].chunks_exact_mut(4) the pixels of a line.
Slots(width, height, stride, planeLen) ==
    LET lines == IF planeLen \div stride < height THEN planeLen \div stride ELSE height
    IN  [n \in 1..(lines * width) |->
            ((n - 1) \div width) * stride + 4 * ((n - 1) % width)]

\* The two loops: every pixel slot takes the next source pixel, if one is left.
RECURSIVE PackFrom(_, _, _, _)
PackFrom(dest, slots, pixels, prov) ==
    IF slots = <<>> THEN dest
    ELSE IF pixels # <<>>
         THEN PackFrom(WritePixel(prov, dest, Head(slots), Head(pixels)),
                       Tail(slots), Tail(pixels), prov)
         ELSE PackFrom(OnNone(dest, Head(slots)), Tail(slots), pixels, prov)

\* Mutation: the image is taken out of the list (Vec::remove).
AfterTake(imgs, fn) == SubSeq(imgs, 1, fn) \o SubSeq(imgs, fn + 2, Len(imgs))

\* The list after images.get(*frame_num as usize).unwrap() under the read
\* guard of the RwLock and image.clone(): the list is only read.
AfterGet(imgs, fn) == imgs

\* Mutation: a clone is a new default value.
CloneDefault(s) == "default"

\* state.clone(): a value equal to the one cloned (for an Arc, a handle to the
\* same allocation).
Clone(s) == s

\* Mutation: the second thread takes the locks in the other order.
LockOrderOpposed(t) ==
    IF t = 1 THEN <<"frame_num", IF kind = "recv" THEN "receiver" ELSE "images">>
    ELSE <<IF kind = "recv" THEN "receiver" ELSE "images", "frame_num">>

\* The order in which a call takes its locks: state.0.lock() and then
\* state.1.lock() (reciever_data_provider) or state.1.read() (vec_data_provider).
LockOrder(t) == <<"frame_num", IF kind = "recv" THEN "receiver" ELSE "images">>

\* Mutation: a lock is given although another thread holds it.
FreeAlways(own, l) == TRUE

\* Whether lock() returns now: a Mutex is given when no thread holds it, and
\* read() on the RwLock is always given, for no thread ever writes.
Free(own, l) == l = "images" \/ own[l] = 0

\* ------------------------------------------------------------ log helpers

PushEntry(b, r) == [op |-> "push", frame |-> b.frame, idx |-> b.idx, pts |-> b.pts, res |-> r]
EosEntry(r) == [op |-> "eos", frame |-> 0, idx |-> 0, pts |-> 0, res |-> r]

Pushes(l) == SelectSeq(l, LAMBDA e : e.op = "push")
EosCalls(l) == Len(SelectSeq(l, LAMBDA e : e.op = "eos"))
OkPushes(l) == Len(SelectSeq(l, LAMBDA e : e.op = "push" /\ e.res = "Ok"))
EosAccepted(l) == \E k \in DOMAIN l : l[k].op = "eos" /\ l[k].res = "Ok"

\* The sink calls of the current (or last) need_data call.
BurstLog == SubSeq(log, burst.from + 1, Len(log))

NewBurst(locked) ==
    [from |-> Len(log), start |-> frame_num, recvd |-> 0, locked |-> locked,
     afterEos |-> EosCalls(log) > 0, end |-> "running"]

\* --------------------------------------------------------------- Init

\* The state after construction of the bridge.
ProgramInit ==
    /\ kind \in {"vec", "recv", "user"}
    /\ framerate \in Framerates
    /\ images \in {[k \in 1..n |-> k] : n \in 0..MaxLen}
    /\ kind # "vec" => images = <<>>
    /\ frame_num = 0
    /\ poisoned = {}
    /\ held = {}
    /\ pc = "idle"
    /\ i = 0
    /\ buf = NoBuf
    /\ chan = <<>>
    /\ senders = IF kind = "recv" THEN 1 ELSE 0
    /\ sent = 0
    /\ mainPc = "running"
    /\ log = <<>>
    /\ burst = [from |-> 0, start |-> 0, recvd |-> 0, locked |-> FALSE,
                afterEos |-> FALSE, end |-> "none"]
    /\ pipeline = "Playing"
    /\ evPc = "loop"
    /\ msgs = 0
    /\ errorSeen = FALSE
    /\ lastMsg = "none"
    /\ state \in IF kind = "user" THEN States ELSE {"locks"}
    /\ hasStop \in IF kind = "user" THEN BOOLEAN ELSE {FALSE}
    /\ passed = <<>>
    /\ cbLog = <<>>
    /\ stdout = <<>>
    /\ tpc = [t \in ThreadIds |-> "idle"]
    /\ owner = [l \in Locks |-> 0]
    /\ ti = [t \in ThreadIds |-> 0]
    /\ tbuf = [t \in ThreadIds |-> NoBuf]
    /\ tcall = [t \in ThreadIds |-> 0]
    /\ calls = 0
    /\ who = <<>>
    /\ rendered = 0
    /\ pending = {}

\* No timestamps are being followed.
NoStamps == [fr |-> 0, n |-> 0, pts |-> <<>>]

\* No frame is being packed.
NoPack ==
    [prov |-> "none", width |-> 0, height |-> 0, stride |-> 0, size |-> 0,
     src |-> <<>>, prior |-> <<>>, dest |-> <<>>, done |-> FALSE]

Init ==
    /\ ProgramInit
    /\ normLog = <<>>
    /\ pk = NoPack
    /\ ts = NoStamps

\* The appsrc asks for data only while the pipeline is playing.
Pulling == pipeline = "Playing" /\ pc = "idle"

\* ----------------------------------------------- vec_data_provider

\* One call of vec_data_provider. The frame_num mutex is taken on entry and its
\* guard lives to the end of the function, and the appsrc calls need_data from
\* its one streaming thread, so a call is one step.
VecNeedData ==
    /\ kind = "vec"
    /\ Pulling
    /\ IF "frame_num" \in poisoned
       THEN \* state.0.lock().unwrap() on a poisoned mutex panics
            /\ burst' = [NewBurst(FALSE) EXCEPT !.end = "panicked"]
            /\ UNCHANGED <<frame_num, poisoned, log>>
       ELSE IF VecExhausted(frame_num, images)
       THEN \* appsrc.end_of_stream().unwrap(); return
            /\ EosCalls(log) < MaxEos
            /\ \E r \in SinkResults :
                 /\ log' = Append(log, EosEntry(r))
                 /\ poisoned' = IF r = "Err" THEN poisoned \cup {"frame_num"} ELSE poisoned
                 /\ burst' = [NewBurst(TRUE) EXCEPT
                                !.end = IF r = "Err" THEN "panicked" ELSE "returned"]
            /\ UNCHANGED frame_num
       ELSE IF frame_num + 1 \notin DOMAIN images
       THEN \* images.get(*frame_num as usize).unwrap() on None panics
            /\ poisoned' = poisoned \cup {"frame_num"}
            /\ burst' = [NewBurst(TRUE) EXCEPT !.end = "panicked"]
            /\ UNCHANGED <<frame_num, log>>
       ELSE LET b == [frame |-> images[frame_num + 1], idx |-> frame_num,
                      pts |-> Pts(frame_num, framerate)]
            IN  \* *frame_num += 1 comes before push_buffer(buffer).unwrap()
                /\ frame_num' = NextIndex(frame_num)
                /\ \E r \in SinkResults :
                     /\ log' = Append(log, PushEntry(b, r))
                     /\ poisoned' = IF r = "Err" THEN poisoned \cup {"frame_num"}
                                    ELSE poisoned
                     /\ burst' = [NewBurst(TRUE) EXCEPT
                                    !.end = IF r = "Err" THEN "panicked" ELSE "returned"]
    /\ images' = IF /\ "frame_num" \notin poisoned
                    /\ ~VecExhausted(frame_num, images)
                    /\ frame_num + 1 \in DOMAIN images
                 THEN AfterGet(images, frame_num)
                 ELSE images
    /\ UNCHANGED <<held, pc, i, buf>>
    /\ UNCHANGED <<channelVars, busVars, callbackVars, concVars, renderVars, kind, framerate, state, hasStop, pureVars>>

\* ------------------------------------------ reciever_data_provider

\* Entry of reciever_data_provider: both locks are taken, then the loop starts.
RecvNeedData ==
    /\ kind = "recv"
    /\ Pulling
    /\ IF poisoned # {}
       THEN \* lock().unwrap() on a poisoned mutex panics
            /\ burst' = [NewBurst(FALSE) EXCEPT !.end = "panicked"]
            /\ UNCHANGED <<held, pc, i>>
       ELSE /\ i' = 0
            /\ IF LoopContinues(0)
               THEN /\ held' = Acquired
                    /\ pc' = "recv"
                    /\ burst' = NewBurst(TRUE)
               ELSE /\ held' = {}
                    /\ pc' = "idle"
                    /\ burst' = [NewBurst(TRUE) EXCEPT !.end = "returned"]
    /\ UNCHANGED <<frame_num, poisoned, buf, log>>
    /\ UNCHANGED <<channelVars, busVars, configVars, callbackVars>>

\* receiver.recv() returned Ok(image): set the pts, pack, *frame_num += 1.
RecvFrame ==
    /\ pc = "recv"
    /\ RecvResult(chan, senders) = "Ok"
    /\ buf' = [frame |-> Head(chan), idx |-> frame_num, pts |-> Pts(frame_num, framerate)]
    /\ chan' = Tail(chan)
    /\ frame_num' = NextIndex(frame_num)
    /\ burst' = [burst EXCEPT !.recvd = @ + 1]
    /\ pc' = "push"
    /\ UNCHANGED <<poisoned, held, i, log, senders, sent, mainPc>>
    /\ UNCHANGED <<busVars, configVars, callbackVars>>

\* receiver.recv() returned Err: let _ = appsrc.end_of_stream(); return.
RecvClosed ==
    /\ pc = "recv"
    /\ RecvResult(chan, senders) = "Err"
    /\ EosCalls(log) < MaxEos
    /\ \E r \in SinkResults : log' = Append(log, EosEntry(r))
    /\ IF EosEndsBurst
       THEN /\ pc' = "idle"
            /\ held' = {}
            /\ burst' = [burst EXCEPT !.end = "returned"]
            /\ buf' = buf
       ELSE \* without the return the untouched buffer reaches push_buffer
            /\ pc' = "push"
            /\ buf' = NoBuf
            /\ UNCHANGED <<held, burst>>
    /\ UNCHANGED <<frame_num, poisoned, i>>
    /\ UNCHANGED <<channelVars, busVars, configVars, callbackVars>>

\* let _ = appsrc.push_buffer(buffer).unwrap(); then the next iteration.
RecvPush ==
    /\ pc = "push"
    /\ \E r \in SinkResults :
         /\ log' = Append(log, PushEntry(buf, r))
         /\ IF r = "Err"
            THEN \* the unwrap panics; the guards are dropped by the unwinding
                 /\ poisoned' = poisoned \cup held
                 /\ held' = {}
                 /\ pc' = "idle"
                 /\ i' = i
                 /\ burst' = [burst EXCEPT !.end = "panicked"]
            ELSE /\ i' = i + 1
                 /\ poisoned' = poisoned
                 /\ IF LoopContinues(i + 1)
                    THEN /\ pc' = "recv"
                         /\ UNCHANGED <<held, burst>>
                    ELSE /\ pc' = "idle"
                         /\ held' = {}
                         /\ burst' = [burst EXCEPT !.end = "returned"]
    /\ buf' = NoBuf
    /\ UNCHANGED frame_num
    /\ UNCHANGED <<channelVars, busVars, configVars, callbackVars>>

\* ------------------------------------------------------- the producer

\* image_sender.send(image) on the channel made by start_encoding.
Send ==
    /\ mainPc = "running"
    /\ senders > 0
    /\ sent < MaxSend
    /\ chan' = Append(chan, sent + 1)
    /\ sent' = sent + 1
    /\ UNCHANGED <<senders, mainPc>>
    /\ UNCHANGED <<providerVars, busVars, configVars, callbackVars>>

\* drop(image_sender)
DropSender ==
    /\ mainPc = "running"
    /\ senders > 0
    /\ senders' = senders - 1
    /\ UNCHANGED <<chan, sent, mainPc>>
    /\ UNCHANGED <<providerVars, busVars, configVars, callbackVars>>

\* handle.join() on the JoinHandle returned by start_encoding: the caller
\* blocks, so it neither sends nor drops its Sender until the join returns.
Join ==
    /\ kind = "recv"
    /\ mainPc = "running"
    /\ mainPc' = "joining"
    /\ UNCHANGED <<chan, senders, sent>>
    /\ UNCHANGED <<providerVars, busVars, configVars, callbackVars>>

\* The encoding thread ends when encode_video returns; the join then returns.
JoinReturns ==
    /\ mainPc = "joining"
    /\ evPc = "returned"
    /\ mainPc' = "joined"
    /\ UNCHANGED <<chan, senders, sent>>
    /\ UNCHANGED <<providerVars, busVars, configVars, callbackVars>>

\* ------------------------------------------- a user's need_data callback

\* The need_data closure of encode_video around a callback of the user:
\* need_data.need_data(appsrc, &video_info, &video_settings, len, state);
\* what the callback returns is dropped at the semicolon. It is neither
\* converted nor printed, and nothing of the run changes with it.
UserNeedData ==
    /\ kind = "user"
    /\ Pulling
    /\ Len(cbLog) < MaxCalls
    /\ \E o \in CallbackReturns : cbLog' = Append(cbLog, o)
    /\ passed' = Append(passed, [to |-> "need_data", state |-> Clone(state)])
    /\ UNCHANGED <<providerVars, channelVars, busVars, configVars>>

\* The enough_data closure, set only for Some(func): it holds state_clone, the
\* clone made of state before the need_data closure took it, and hands a clone
\* of that to func; what func returns is dropped.
EnoughData ==
    /\ kind = "user"
    /\ hasStop
    /\ Pulling
    /\ Len(SelectSeq(passed, LAMBDA e : e.to = "enough_data")) < MaxStops
    /\ passed' = Append(passed, [to |-> "enough_data", state |-> Clone(Clone(state))])
    /\ UNCHANGED cbLog
    /\ UNCHANGED <<providerVars, channelVars, busVars, configVars>>

\* ------------------------------------------- encode_video's bus loop

BusGuard == evPc = "loop" /\ msgs < MaxMsgs

\* Mutation: the Eos arm does not break.
BusEosNoBreak ==
    /\ BusGuard
    /\ EosAccepted(log)
    /\ msgs' = msgs + 1
    /\ lastMsg' = "Eos"
    /\ UNCHANGED <<pipeline, evPc, stdout, errorSeen>>
    /\ UNCHANGED <<providerVars, channelVars, configVars, callbackVars>>

\* MessageView::Eos(_) => break; then println!, set_state(Null) and return.
\* The pipeline reports end-of-stream only once the appsrc accepted one.
BusEos ==
    /\ BusGuard
    /\ EosAccepted(log)
    /\ msgs' = msgs + 1
    /\ lastMsg' = "Eos"
    /\ pipeline' = "Null"
    /\ evPc' = "returned"
    /\ stdout' = Append(stdout, [of |-> "end", text |-> "ending pipeline"])
    /\ UNCHANGED errorSeen
    /\ UNCHANGED <<providerVars, channelVars, configVars, callbackVars>>

\* MessageView::Error(e) => { set_state(Null); println! }: the arm has no break.
BusError ==
    /\ BusGuard
    /\ msgs' = msgs + 1
    /\ lastMsg' = "Error"
    /\ pipeline' = "Null"
    /\ errorSeen' = TRUE
    /\ stdout' = Append(stdout, [of |-> "bus", text |-> "Error!"])
    /\ UNCHANGED evPc
    /\ UNCHANGED <<providerVars, channelVars, configVars, callbackVars>>

\* Mutation: a Warning ends the loop as Eos does.
BusLoggedWarningBreaks(m) ==
    /\ BusGuard
    /\ m \in {"Progress", "Warning", "Info", "Other"}
    /\ msgs' = msgs + 1
    /\ lastMsg' = m
    /\ stdout' = IF m = "Other" THEN stdout
                 ELSE Append(stdout, [of |-> "bus", text |-> m])
    /\ evPc' = IF m = "Warning" THEN "returned" ELSE evPc
    /\ pipeline' = IF m = "Warning" THEN "Null" ELSE pipeline
    /\ UNCHANGED errorSeen
    /\ UNCHANGED <<providerVars, channelVars, configVars, callbackVars>>

\* Progress, Warning and Info are printed; every other message is ignored.
BusLogged(m) ==
    /\ BusGuard
    /\ m \in {"Progress", "Warning", "Info", "Other"}
    /\ msgs' = msgs + 1
    /\ lastMsg' = m
    /\ stdout' = IF m = "Other" THEN stdout
                 ELSE Append(stdout, [of |-> "bus", text |-> m])
    /\ UNCHANGED <<pipeline, evPc, errorSeen>>
    /\ UNCHANGED <<providerVars, channelVars, configVars, callbackVars>>

\* --------------------------------------------------------------- Next

Next ==
    \/ VecNeedData
    \/ RecvNeedData
    \/ RecvFrame
    \/ RecvClosed
    \/ RecvPush
    \/ UserNeedData
    \/ EnoughData
    \/ Send
    \/ DropSender
    \/ Join
    \/ JoinReturns
    \/ BusEos
    \/ BusError
    \/ \E m \in MsgKinds : BusLogged(m)

Spec == Init /\ [][Next]_vars

\* ----------------------------------------------- the Outcome Normalizer

\* One callback return taken through Into<DataGenReturn> and then through
\* Into<anyhow::Result<()>> and unwrap.
Normalize(o) ==
    /\ Len(normLog) < MaxNorm
    /\ normLog' = Append(normLog,
                         [in |-> o,
                          out |-> IntoResult(IntoDataGenReturn(o)),
                          unwrap |-> Unwrap(IntoDataGenReturn(o))])
    /\ UNCHANGED <<providerVars, channelVars, busVars, callbackVars, concVars, renderVars, kind, framerate, state, hasStop, images, pk, ts>>

InitNormalizer ==
    /\ ProgramInit
    /\ kind = "vec"
    /\ images = <<>>
    /\ framerate = 30
    /\ normLog = <<>>
    /\ pk = NoPack
    /\ ts = NoStamps

NextNormalizer == \E o \in CallbackReturns : Normalize(o)

SpecNormalizer == InitNormalizer /\ [][NextNormalizer]_vars

\* ----------------------------------------------------- the pixel packer

\* The source frames tried: n pixels whose colours go round Colors from ph.
Sources(n) ==
    {[k \in 1..n |-> Colors[((k + ph) % Len(Colors)) + 1]] : ph \in 0..(Len(Colors) - 1)}

\* A frame of some width and height, a source image that may be shorter or
\* longer than the frame, and a fresh destination plane.
PackInputs ==
    UNION {
        UNION {
            {[prov |-> pr, width |-> w, height |-> h, stride |-> 4 * w + pad,
              size |-> (4 * w + pad) * (h + x),
              src |-> sq,
              prior |-> NewBuffer((4 * w + pad) * (h + x), sq, f),
              dest |-> NewBuffer((4 * w + pad) * (h + x), sq, f),
              done |-> FALSE] :
                pr \in {"recv", "vec"}, pad \in Pads, x \in ExtraRows, f \in Fills,
                sq \in UNION {Sources(n) : n \in 0..(w * h + 1)}} :
            h \in 1..MaxH} :
        w \in 1..MaxW}

\* The packing loops of reciever_data_provider over one received frame.
RecvPack ==
    /\ pk.prov = "recv"
    /\ ~pk.done
    /\ pk' = [pk EXCEPT
                 !.dest = PackFrom(pk.prior,
                                   Slots(pk.width, pk.height, pk.stride, Len(pk.prior)),
                                   RecvPixels(pk.src), "recv"),
                 !.done = TRUE]
    /\ UNCHANGED <<providerVars, channelVars, busVars, callbackVars, concVars, renderVars, kind, framerate, state, hasStop, images, normLog, ts>>

\* The packing loops of vec_data_provider over one image of the list.
VecPack ==
    /\ pk.prov = "vec"
    /\ ~pk.done
    /\ pk' = [pk EXCEPT
                 !.dest = PackFrom(pk.prior,
                                   Slots(pk.width, pk.height, pk.stride, Len(pk.prior)),
                                   VecPixels(pk.src), "vec"),
                 !.done = TRUE]
    /\ UNCHANGED <<providerVars, channelVars, busVars, callbackVars, concVars, renderVars, kind, framerate, state, hasStop, images, normLog, ts>>

InitPacker ==
    /\ ProgramInit
    /\ kind = "vec"
    /\ images = <<>>
    /\ framerate = 30
    /\ normLog = <<>>
    /\ pk \in PackInputs
    /\ ts = NoStamps

NextPacker == RecvPack \/ VecPack

SpecPacker == InitPacker /\ [][NextPacker]_vars

\* --------------------------------------- need_data from two threads

\* The mutexes thread t holds.
HeldBy(t) == {l \in Locks : owner[l] = t}

\* The guards of thread t are dropped.
Release(t) == [l \in Locks |-> IF owner[l] = t THEN 0 ELSE owner[l]]

\* The lock thread t is about to take.
Wanted(t) == LockOrder(t)[IF tpc[t] = "lock1" THEN 1 ELSE 2]

\* A thread of the appsrc enters need_data.
CStart(t) ==
    /\ kind \in {"vec", "recv"}
    /\ pipeline = "Playing"
    /\ tpc[t] = "idle"
    /\ calls < MaxCCalls
    /\ calls' = calls + 1
    /\ tcall' = [tcall EXCEPT ![t] = calls + 1]
    /\ tpc' = [tpc EXCEPT ![t] = "lock1"]
    /\ UNCHANGED <<owner, ti, tbuf, who>>
    /\ UNCHANGED <<providerVars, channelVars, busVars, callbackVars>>
    /\ UNCHANGED <<kind, framerate, images, pureVars, state, hasStop, renderVars>>

\* state.0.lock().unwrap() and state.1.lock().unwrap() (or read()): the
\* thread waits until the lock is free; on a poisoned mutex the unwrap panics
\* and the guards held so far are dropped, poisoning their mutexes.
CLock(t) ==
    /\ tpc[t] \in {"lock1", "lock2"}
    /\ Free(owner, Wanted(t))
    /\ IF Wanted(t) \in poisoned
       THEN /\ poisoned' = poisoned \cup HeldBy(t)
            /\ owner' = Release(t)
            /\ tpc' = [tpc EXCEPT ![t] = "idle"]
       ELSE /\ poisoned' = poisoned
            /\ owner' = IF Wanted(t) = "images" THEN owner
                        ELSE [owner EXCEPT ![Wanted(t)] = t]
            /\ tpc' = [tpc EXCEPT ![t] = IF tpc[t] = "lock1" THEN "lock2" ELSE "body"]
    /\ ti' = [ti EXCEPT ![t] = 0]
    /\ UNCHANGED <<tbuf, tcall, calls, who>>
    /\ UNCHANGED <<frame_num, held, pc, i, buf, log, burst>>
    /\ UNCHANGED <<channelVars, busVars, callbackVars>>
    /\ UNCHANGED <<kind, framerate, images, pureVars, state, hasStop, renderVars>>

\* The body of vec_data_provider under its two guards.
CVecBody(t) ==
    /\ kind = "vec"
    /\ tpc[t] = "body"
    /\ \E r \in SinkResults :
         /\ IF VecExhausted(frame_num, images)
            THEN /\ log' = Append(log, EosEntry(r))
                 /\ frame_num' = frame_num
            ELSE /\ log' = Append(log, PushEntry([frame |-> images[frame_num + 1],
                                                  idx |-> frame_num,
                                                  pts |-> Pts(frame_num, framerate)], r))
                 /\ frame_num' = NextIndex(frame_num)
         /\ poisoned' = IF r = "Err" THEN poisoned \cup HeldBy(t) ELSE poisoned
    /\ who' = Append(who, [call |-> tcall[t], by |-> t])
    /\ owner' = Release(t)
    /\ tpc' = [tpc EXCEPT ![t] = "idle"]
    /\ UNCHANGED <<ti, tbuf, tcall, calls>>
    /\ UNCHANGED <<held, pc, i, buf, burst>>
    /\ UNCHANGED <<channelVars, busVars, callbackVars>>
    /\ UNCHANGED <<kind, framerate, images, pureVars, state, hasStop, renderVars>>

\* One turn of the loop of reciever_data_provider up to the push: the loop
\* ends, or recv() gives a frame, or recv() fails and end_of_stream is called.
CRecvStep(t) ==
    /\ kind = "recv"
    /\ tpc[t] = "body"
    /\ IF ~LoopContinues(ti[t])
       THEN /\ owner' = Release(t)
            /\ tpc' = [tpc EXCEPT ![t] = "idle"]
            /\ UNCHANGED <<tbuf, who, frame_num, log, chan>>
       ELSE IF RecvResult(chan, senders) = "Ok"
       THEN /\ tbuf' = [tbuf EXCEPT ![t] = [frame |-> Head(chan), idx |-> frame_num,
                                            pts |-> Pts(frame_num, framerate)]]
            /\ chan' = Tail(chan)
            /\ frame_num' = NextIndex(frame_num)
            /\ tpc' = [tpc EXCEPT ![t] = "push"]
            /\ UNCHANGED <<owner, who, log>>
       ELSE /\ RecvResult(chan, senders) = "Err"
            /\ \E r \in SinkResults : log' = Append(log, EosEntry(r))
            /\ who' = Append(who, [call |-> tcall[t], by |-> t])
            /\ owner' = Release(t)
            /\ tpc' = [tpc EXCEPT ![t] = "idle"]
            /\ UNCHANGED <<tbuf, frame_num, chan>>
    /\ UNCHANGED <<ti, tcall, calls>>
    /\ UNCHANGED <<poisoned, held, pc, i, buf, burst, senders, sent, mainPc>>
    /\ UNCHANGED <<busVars, callbackVars>>
    /\ UNCHANGED <<kind, framerate, images, pureVars, state, hasStop, renderVars>>

\* let _ = appsrc.push_buffer(buffer).unwrap() of reciever_data_provider.
CRecvPush(t) ==
    /\ tpc[t] = "push"
    /\ \E r \in SinkResults :
         /\ log' = Append(log, PushEntry(tbuf[t], r))
         /\ IF r = "Err"
            THEN /\ poisoned' = poisoned \cup HeldBy(t)
                 /\ owner' = Release(t)
                 /\ tpc' = [tpc EXCEPT ![t] = "idle"]
                 /\ ti' = ti
            ELSE /\ poisoned' = poisoned
                 /\ owner' = owner
                 /\ tpc' = [tpc EXCEPT ![t] = "body"]
                 /\ ti' = [ti EXCEPT ![t] = @ + 1]
    /\ who' = Append(who, [call |-> tcall[t], by |-> t])
    /\ tbuf' = [tbuf EXCEPT ![t] = NoBuf]
    /\ UNCHANGED <<tcall, calls>>
    /\ UNCHANGED <<frame_num, held, pc, i, buf, burst>>
    /\ UNCHANGED <<channelVars, busVars, callbackVars>>
    /\ UNCHANGED <<kind, framerate, images, pureVars, state, hasStop, renderVars>>

InitConcurrent ==
    /\ Init
    /\ kind \in {"vec", "recv"}
    /\ framerate = 30

NextConcurrent ==
    \/ \E t \in ThreadIds : CStart(t)
    \/ \E t \in ThreadIds : CLock(t)
    \/ \E t \in ThreadIds : CVecBody(t)
    \/ \E t \in ThreadIds : CRecvStep(t)
    \/ \E t \in ThreadIds : CRecvPush(t)
    \/ Send
    \/ DropSender

SpecConcurrent == InitConcurrent /\ [][NextConcurrent]_vars

\* ------------------------------------------------- the timestamps

\* The framerates SpecPts tries: every one up to RateLimit, and a few above.
PtsRates == 1..(RateLimit + MaxOver)

\* One frame more is stamped and counted: buffer.set_pts(*frame_num *
\* (1_000 / framerate) * MSECOND), and then *frame_num += 1.
Stamp ==
    /\ Len(ts.pts) < MaxStamps
    /\ ts' = [ts EXCEPT !.pts = Append(@, Pts(ts.n, ts.fr)), !.n = NextIndex(@)]
    /\ UNCHANGED <<providerVars, channelVars, busVars, callbackVars, concVars, renderVars, kind, framerate, state, hasStop, images, normLog, pk>>

InitPts ==
    /\ ProgramInit
    /\ kind = "vec"
    /\ images = <<>>
    /\ framerate = 30
    /\ normLog = <<>>
    /\ pk = NoPack
    /\ ts \in {[fr |-> f, n |-> 0, pts |-> <<>>] : f \in PtsRates}

NextPts == Stamp

SpecPts == InitPts /\ [][NextPts]_vars

\* ------------------------------------------- the rendering application

\* State::render: the frame is read back, frame_sender is cloned, and when
\* the frame is due a thread is spawned that makes the ImageBuffer and sends
\* it; the clone is dropped with the thread, or at the end of render when no
\* thread was spawned.
Render ==
    /\ kind = "recv"
    /\ mainPc = "running"
    /\ rendered < MaxRender
    /\ rendered' = rendered + 1
    /\ \E due \in BOOLEAN :
         IF due
         THEN /\ pending' = pending \cup {rendered + 1}
              /\ senders' = senders + 1
         ELSE UNCHANGED <<pending, senders>>
    /\ UNCHANGED <<chan, sent, mainPc>>
    /\ UNCHANGED <<providerVars, busVars, callbackVars, concVars>>
    /\ UNCHANGED <<kind, framerate, images, pureVars, state, hasStop>>

\* The spawned thread of frame k: from_raw, frame_sender.send(buffer), and the
\* end of the thread, which drops its clone of the sender.
FrameSend(k) ==
    /\ k \in pending
    /\ chan' = Append(chan, k)
    /\ sent' = sent + 1
    /\ pending' = pending \ {k}
    /\ senders' = senders - 1
    /\ UNCHANGED <<mainPc, rendered>>
    /\ UNCHANGED <<providerVars, busVars, callbackVars, concVars>>
    /\ UNCHANGED <<kind, framerate, images, pureVars, state, hasStop>>

\* State::close: the State's sender is replaced and dropped, then
\* encoder_thread.join() is called.
Close ==
    /\ kind = "recv"
    /\ mainPc = "running"
    /\ senders' = senders - 1
    /\ mainPc' = "joining"
    /\ UNCHANGED <<chan, sent, rendered, pending>>
    /\ UNCHANGED <<providerVars, busVars, callbackVars, concVars>>
    /\ UNCHANGED <<kind, framerate, images, pureVars, state, hasStop>>

InitRender ==
    /\ Init
    /\ kind = "recv"
    /\ framerate = 60

NextRender ==
    \/ Render
    \/ \E k \in 1..MaxRender : FrameSend(k)
    \/ Close
    \/ JoinReturns
    \/ RecvNeedData
    \/ RecvFrame
    \/ RecvClosed
    \/ RecvPush
    \/ BusEos
    \/ BusError
    \/ \E m \in MsgKinds : BusLogged(m)

SpecRender == InitRender /\ [][NextRender]_vars

\* ------------------------------------------------------------- claims

Min(a, b) == IF a < b THEN a ELSE b

IsPush(e) == e.op = "push"
IsEos(e) == e.op = "eos"

\* C1 (as amended): the buffer pushed for frame index i carries the
\* timestamp i * floor(1000 / framerate) milliseconds, in both providers:
\* the division is done first, so framerate 30 gives 0, 33, 66, 99.
C1_PtsIsIndexTimesStep ==
    \A k \in DOMAIN Pushes(log) :
        /\ Pushes(log)[k].idx = k - 1
        /\ Pushes(log)[k].pts = (k - 1) * (1000 \div framerate)

\* C1 as stated: the timestamp of frame index i is floor(i * 1000 / framerate).
C1_PtsIsFloorOfProduct ==
    \A k \in DOMAIN Pushes(log) :
        Pushes(log)[k].pts = ((k - 1) * 1000) \div framerate

\* Four frames pushed at framerate 30: 0, 33, 66 and then 99, where the
\* floor of the product would be 100.
C1_Witness ==
    /\ framerate = 30
    /\ Len(Pushes(log)) = 4
    /\ Pushes(log)[3].pts = 66
    /\ Pushes(log)[4].pts = 99

\* C2 as stated: end-of-stream is signaled at most once, and a need_data call
\* made after it was signaled makes no call on the Sink and does not panic.
C2_EosSignaledOnce ==
    /\ EosCalls(log) <= 1
    /\ (burst.afterEos /\ burst.end # "running") =>
           (BurstLog = <<>> /\ burst.end = "returned")

\* C3 (as amended): one call of vec_data_provider makes exactly one call on
\* the Sink: it pushes the frame at frame_num when frame_num < L, and signals
\* end-of-stream (pushing nothing) when frame_num = L. A call that finds the
\* frame_num mutex poisoned makes none.
C3_VecOnePushPerPull ==
    (kind = "vec" /\ burst.end \in {"returned", "panicked"}) =>
        IF ~burst.locked
        THEN BurstLog = <<>>
        ELSE /\ Len(BurstLog) = 1
             /\ IF burst.start < Len(images)
                THEN /\ IsPush(BurstLog[1])
                     /\ BurstLog[1].idx = burst.start
                     /\ BurstLog[1].frame = images[burst.start + 1]
                ELSE /\ IsEos(BurstLog[1])
                     /\ burst.start = Len(images)

\* C3 as stated: one call pushes min(BUFFER_SIZE, L - frame_num) frames and
\* signals end-of-stream in the same call when the collection runs out in it.
C3_VecBurstOfBufferSize ==
    (kind = "vec" /\ burst.end = "returned") =>
        /\ Len(Pushes(BurstLog)) = Min(BUFFER_SIZE, Len(images) - burst.start)
        /\ (Len(images) - burst.start < BUFFER_SIZE) => EosCalls(BurstLog) = 1

\* A collection of five frames: five calls pushed frames 0..4, one each, and
\* the sixth call signaled end-of-stream.
C3_Witness ==
    /\ kind = "vec"
    /\ Len(images) = 5
    /\ Len(log) = 6
    /\ \A k \in 1..5 : IsPush(log[k]) /\ log[k].idx = k - 1
    /\ IsEos(log[6])
    /\ burst.from = 5
    /\ burst.end = "returned"

\* C4 (as amended): in reciever_data_provider both the frame_num mutex and
\* the receiver mutex are held from entry to return, so they are held while
\* the pull thread waits in recv() and while a buffer is pushed.
C4_LocksHeldAcrossBurst ==
    kind = "recv" =>
        /\ pc \in {"recv", "push"} => held = {"frame_num", "receiver"}
        /\ pc = "idle" => held = {}

\* C4 as stated: no lock is held while the pull thread is in recv() or pushing.
C4_NoLockAcrossRecvOrPush ==
    (kind = "recv" /\ pc \in {"recv", "push"}) => held = {}

\* The pull thread is blocked in recv() (empty channel, a live sender) with
\* both locks held.
C4_Witness ==
    /\ kind = "recv"
    /\ pc = "recv"
    /\ RecvResult(chan, senders) = "Block"
    /\ held = {"frame_num", "receiver"}

\* C5 as stated: once an Error message was handled, encode_video has left its
\* message loop, with the pipeline in the Null state.
C5_ErrorTerminatesRun ==
    errorSeen => (evPc = "returned" /\ pipeline = "Null")

\* C6 as stated: a rejected push_buffer does not make the provider panic.
C6_PushFailureNoPanic ==
    (\E k \in DOMAIN log : IsPush(log[k]) /\ log[k].res = "Err") =>
        (burst.end # "panicked" /\ poisoned = {})

\* C7: a burst of reciever_data_provider that finds the channel closed after
\* receiving K frames has made exactly K pushes and then one end-of-stream
\* call, with K < BUFFER_SIZE, and has returned.
C7_CloseAfterKFrames ==
    (kind = "recv" /\ \E k \in DOMAIN BurstLog : IsEos(BurstLog[k])) =>
        /\ burst.recvd < BUFFER_SIZE
        /\ Len(BurstLog) = burst.recvd + 1
        /\ \A k \in 1..burst.recvd : IsPush(BurstLog[k])
        /\ IsEos(BurstLog[burst.recvd + 1])
        /\ burst.end = "returned"
        /\ pc = "idle"

\* The sender was dropped after two frames of a burst: push, push, eos.
C7_Witness ==
    /\ kind = "recv"
    /\ burst.recvd = 2
    /\ senders = 0
    /\ Len(BurstLog) = 3
    /\ IsPush(BurstLog[1]) /\ IsPush(BurstLog[2]) /\ IsEos(BurstLog[3])
    /\ burst.end = "returned"

\* C8: once vec_data_provider has signaled end-of-stream, frame_num equals L
\* and the Sink's log starts with exactly the L accepted pushes of the
\* elements at indices 0..L-1, in that order.
C8_VecEosOnlyAtEnd ==
    (kind = "vec" /\ EosCalls(log) > 0) =>
        /\ frame_num = Len(images)
        /\ Len(log) >= Len(images) + 1
        /\ \A k \in 1..Len(images) :
               /\ IsPush(log[k])
               /\ log[k].res = "Ok"
               /\ log[k].idx = k - 1
               /\ log[k].frame = images[k]
        /\ \A k \in (Len(images) + 1)..Len(log) : IsEos(log[k])

\* Three frames pushed in order, then the first end-of-stream signal.
C8_Witness ==
    /\ kind = "vec"
    /\ Len(images) = 3
    /\ Len(log) = 4
    /\ IsPush(log[3])
    /\ IsEos(log[4])

\* C9: no push_buffer call follows an end_of_stream call, in either provider.
C9_NoPushAfterEos ==
    \A j, k \in DOMAIN log : (j < k /\ IsEos(log[j])) => ~IsPush(log[k])

\* Frames were pushed, end-of-stream was signaled, and a later need_data call
\* has run to its end.
C9_Witness ==
    /\ \E k \in DOMAIN log : IsPush(log[k])
    /\ burst.afterEos
    /\ burst.end = "returned"

\* C10: whenever no burst is running and none has panicked, frame_num equals
\* the number of buffers the Sink accepted; the pushed frame indices are
\* 0, 1, 2, ... with no value skipped or used twice.
C10_IndexCountsPushes ==
    /\ (pc = "idle" /\ poisoned = {}) =>
           (frame_num = OkPushes(log) /\ frame_num = Len(Pushes(log)))
    /\ \A k \in DOMAIN Pushes(log) : Pushes(log)[k].idx = k - 1

\* Two bursts of the channel-backed provider are over: BUFFER_SIZE frames in
\* the first, one more in the second.
C10_Witness ==
    /\ kind = "recv"
    /\ pc = "idle"
    /\ poisoned = {}
    /\ burst.end = "returned"
    /\ burst.start = BUFFER_SIZE
    /\ frame_num = BUFFER_SIZE + 1

\* C11: a burst of reciever_data_provider makes at most BUFFER_SIZE pushes,
\* every one of a frame it received (never an unfilled placeholder), and once
\* it has signaled end-of-stream it makes no further call.
C11_BurstBoundedNoPadding ==
    kind = "recv" =>
        /\ Len(Pushes(BurstLog)) <= BUFFER_SIZE
        /\ Len(Pushes(BurstLog)) <= burst.recvd
        /\ \A k \in DOMAIN BurstLog :
               /\ IsPush(BurstLog[k]) => BurstLog[k].frame # 0
               /\ IsEos(BurstLog[k]) => k = Len(BurstLog)

\* A full burst of BUFFER_SIZE pushes was followed by a burst that found the
\* channel closed at its second iteration: one push, then end-of-stream.
C11_Witness ==
    /\ kind = "recv"
    /\ burst.start = BUFFER_SIZE
    /\ burst.from = BUFFER_SIZE
    /\ Len(BurstLog) = 2
    /\ IsPush(BurstLog[1])
    /\ IsEos(BurstLog[2])
    /\ burst.end = "returned"

\* The pull thread waits in receiver.recv(): nothing queued, a Sender alive.
BlockedInRecv == pc = "recv" /\ RecvResult(chan, senders) = "Block"

\* C12: once the caller joins the encoding thread while it still holds the
\* Sender, no step ends the join: the Sender stays alive, encode_video stays
\* in its message loop, and a pull thread blocked in recv() stays blocked.
C12_JoinBeforeDropDeadlocks ==
    [][(mainPc = "joining" /\ senders > 0) =>
           /\ mainPc' = "joining"
           /\ senders' > 0
           /\ evPc' = "loop"
           /\ BlockedInRecv => BlockedInRecv']_vars

\* The caller joined with its Sender alive after sending frames, all of them
\* were received, and the pull thread waits in recv().
C12_Witness ==
    /\ mainPc = "joining"
    /\ senders > 0
    /\ sent > 0
    /\ BlockedInRecv

\* C13 as stated: once every Sender is dropped the encoding thread comes to its
\* end as long as the appsrc keeps asking for data. So while the pipeline is
\* playing and the thread has not ended, its end is still ahead: the appsrc has
\* accepted an end-of-stream, or a need_data call can still get to signal one
\* (the mutexes it locks on entry are not poisoned).
C13_DroppedSendersCanEndRun ==
    (kind = "recv" /\ senders = 0 /\ evPc = "loop" /\ pipeline = "Playing") =>
        (EosAccepted(log) \/ poisoned = {})

\* C14: the channel-backed provider pushes the frames in the order they were
\* sent, each once; whenever it has signaled end-of-stream, no Sender is left,
\* nothing is queued and every frame sent was pushed and accepted before.
C14_NoFrameLostOnClose ==
    kind = "recv" =>
        /\ Len(Pushes(log)) <= sent
        /\ \A k \in DOMAIN Pushes(log) : Pushes(log)[k].frame = k
        /\ EosCalls(log) > 0 =>
               /\ senders = 0
               /\ chan = <<>>
               /\ Len(Pushes(log)) = sent
               /\ \A k \in 1..sent :
                      IsPush(log[k]) /\ log[k].frame = k /\ log[k].res = "Ok"

\* All MaxSend frames were sent and the Sender dropped; the provider pushed
\* every one of them and then signaled end-of-stream.
C14_Witness ==
    /\ kind = "recv"
    /\ sent = MaxSend
    /\ Len(Pushes(log)) = MaxSend
    /\ EosCalls(log) = 1
    /\ IsEos(log[Len(log)])

\* C15 as stated: a need_data call that signaled end-of-stream does not panic,
\* whatever end_of_stream returned.
C15_ExhaustionNeverPanics ==
    (\E k \in DOMAIN BurstLog : IsEos(BurstLog[k])) => burst.end # "panicked"

\* Ok(()) is the decision to continue, Err(_) the decision to stop.
Decision(res) == IF res.ok THEN "Continue" ELSE "Stop"

\* C16 (as amended): Result Err(e) becomes Stop with the error e, Option None
\* becomes Stop with the error made from NoneMsg, and Result Ok, Option Some
\* and unit become Continue.
C16_NormalizerFolds ==
    \A k \in DOMAIN normLog :
        LET o == normLog[k].in
            res == normLog[k].out
        IN  /\ (o.shape = "Result" /\ ~o.ok) =>
                   (Decision(res) = "Stop" /\ res.err = o.err /\ o.err \in Errors)
            /\ (o.shape = "Option" /\ ~o.ok) =>
                   (Decision(res) = "Stop" /\ res.err = NoneMsg)
            /\ o.ok => (Decision(res) = "Continue" /\ res.err = "none")

\* C16 as stated: as above, but Option None becomes Stop without any error.
C16_NoneStopsWithoutError ==
    \A k \in DOMAIN normLog :
        LET o == normLog[k].in
            res == normLog[k].out
        IN  /\ (o.shape = "Result" /\ ~o.ok) =>
                   (Decision(res) = "Stop" /\ res.err = o.err)
            /\ (o.shape = "Option" /\ ~o.ok) =>
                   (Decision(res) = "Stop" /\ res.err = "none")
            /\ o.ok => Decision(res) = "Continue"

\* A failed Result, an empty Option and a unit return were converted.
C16_Witness ==
    /\ Len(normLog) = 3
    /\ normLog[1].in.shape = "Result" /\ ~normLog[1].in.ok
    /\ normLog[2].in.shape = "Option" /\ ~normLog[2].in.ok
    /\ normLog[3].in.shape = "Unit"
    /\ normLog[2].out.err = NoneMsg


\* The callback's return number k is an explicit failure.
ReportsFailure(k) == cbLog[k].shape = "Result" /\ ~cbLog[k].ok

\* C17: when a need_data callback reports an explicit failure encode_video
\* prints a line for it, and the run goes on: the event loop does not return
\* on it and the pipeline stays as it was.
C17_FailureLoggedRunContinues ==
    \A k \in DOMAIN cbLog :
        ReportsFailure(k) =>
            /\ \E j \in DOMAIN stdout : stdout[j].of = "callback"
            /\ (msgs = 0 => (pipeline = "Playing" /\ evPc = "loop"))


\* The byte at position p of the plane lies in the leading 4 * width bytes
\* of one of the first height rows.
InFrame(p) ==
    /\ (p - 1) \div pk.stride < pk.height
    /\ (p - 1) % pk.stride < 4 * pk.width

\* The number, from 1, of the pixel slot the byte at position p belongs to.
SlotOf(p) == ((p - 1) \div pk.stride) * pk.width + (((p - 1) % pk.stride) \div 4) + 1

\* C18: the packer of either provider writes only in the leading 4 * width
\* bytes of the first height rows: the padding of every row and every byte
\* past row height keep what they held.
C18_OnlyLeadingBytesWritten ==
    pk.done =>
        \A p \in DOMAIN pk.dest : ~InFrame(p) => pk.dest[p] = pk.prior[p]

\* A 2x2 frame with 8 bytes of padding per row and a row past the frame was
\* packed from a full source, and bytes of the frame were written.
C18_Witness ==
    /\ pk.done
    /\ pk.width = 2 /\ pk.height = 2 /\ pk.stride = 16
    /\ Len(pk.dest) = 48
    /\ Len(pk.src) = 4
    /\ \A p \in DOMAIN pk.dest : (InFrame(p) /\ (p - 1) % 4 < 3) => pk.dest[p] # pk.prior[p]

\* C19: of every pixel written, the bytes 0, 1 and 2 hold the blue, the green
\* and the red of the source pixel.
C19_ChannelsReorderedToBgr ==
    pk.done =>
        \A p \in DOMAIN pk.dest :
            (InFrame(p) /\ SlotOf(p) <= Len(pk.src)) =>
                LET px == pk.src[SlotOf(p)]
                    j == (p - 1) % 4
                IN  /\ j = 0 => pk.dest[p] = px.b
                    /\ j = 1 => pk.dest[p] = px.g
                    /\ j = 2 => pk.dest[p] = px.r

\* C20: with a source of fewer pixels than width * height the pixels the
\* source has are written and every byte after the last of them keeps what it
\* held.
C20_ShortSourceStopsWriting ==
    (pk.done /\ Len(pk.src) < pk.width * pk.height) =>
        \A p \in DOMAIN pk.dest :
            IF InFrame(p) /\ SlotOf(p) <= Len(pk.src)
            THEN (p - 1) % 4 = 1 => pk.dest[p] = pk.src[SlotOf(p)].g
            ELSE pk.dest[p] = pk.prior[p]

\* A 2x2 frame was packed from a source of three pixels: the three are in
\* the plane and the fourth pixel holds what it held.
C20_Witness ==
    /\ pk.done
    /\ pk.width = 2 /\ pk.height = 2 /\ pk.stride = 16
    /\ Len(pk.src) = 3
    /\ pk.dest[18] = pk.src[3].g
    /\ \A p \in 21..24 : pk.dest[p] = pk.prior[p]


\* C21: the channel of start_encoding is bounded: whatever the speeds of the
\* producer and of the appsrc, the frames queued never exceed a fixed capacity.
\* A capacity of MaxSend or more binds nothing here, so a capacity there is
\* keeps the queue below the MaxSend frames a producer sends.
C21_ChannelBounded == Len(chan) < MaxSend


\* C22: on an Eos message encode_video leaves its loop, sets the pipeline to
\* Null and returns, and it has not returned unless the last message it took
\* was an Eos.
C22_ReturnsOnEosOnly ==
    /\ lastMsg = "Eos" => (evPc = "returned" /\ pipeline = "Null")
    /\ evPc = "returned" =>
           /\ lastMsg = "Eos"
           /\ pipeline = "Null"
           /\ stdout # <<>>
           /\ stdout[Len(stdout)].text = "ending pipeline"

\* encode_video returned on the Eos that followed an accepted end_of_stream
\* and another message.
C22_Witness ==
    /\ evPc = "returned"
    /\ msgs = 2
    /\ lastMsg = "Eos"
    /\ EosAccepted(log)
    /\ Len(Pushes(log)) > 0

\* The text of a line printed for a Warning, an Info or a Progress message.
Harmless == {"Progress", "Warning", "Info"}

\* C23: Warning, Info and Progress messages never end the run: as long as
\* nothing else was printed encode_video is in its loop and the pipeline
\* plays, and such a message changes neither.
C23_LoggedMessagesKeepRunning ==
    /\ (\A j \in DOMAIN stdout : stdout[j].text \in Harmless) =>
           (evPc = "loop" /\ pipeline = "Playing")
    /\ lastMsg \in Harmless =>
           (evPc = "loop" /\ (pipeline = "Null" => errorSeen))

\* A Warning and an Info were taken and the run goes on.
C23_Witness ==
    /\ Len(stdout) = 2
    /\ stdout[1].text = "Warning"
    /\ stdout[2].text = "Info"
    /\ evPc = "loop"
    /\ pipeline = "Playing"


\* C24: the buffer a provider packs and then pushes is as long as the
\* sink's frame size, video_info.size(), whatever the number of pixels of the
\* source image.
C24_BufferHasFrameSize ==
    /\ pk.prov # "none" => Len(pk.prior) = pk.size
    /\ pk.done => Len(pk.dest) = pk.size

\* Buffers of the frame size were packed from a source shorter and from a
\* source longer than the frame.
C24_Witness ==
    /\ pk.done
    /\ pk.width = 2 /\ pk.height = 2
    /\ Len(pk.src) \in {0, 5}
    /\ Len(pk.dest) = pk.size
    /\ 4 * Len(pk.src) # pk.size


\* C25: no step changes the list of images given to vec_data_provider: after
\* any number of need_data calls it has the length and the contents it had
\* when the encoding started.
C25_ImagesNeverChanged == [][images' = images]_vars

\* A list of three images was read to its end, and it is as it was.
C25_Witness ==
    /\ kind = "vec"
    /\ images = <<1, 2, 3>>
    /\ frame_num = 3
    /\ OkPushes(log) = 3
    /\ EosCalls(log) = 1


\* C26: every call of the need_data callback and of the enough_data callback
\* gets the state that was given to encode_video.
C26_StatePassedUnchanged ==
    /\ \A k \in DOMAIN passed : passed[k].state = state
    /\ kind = "user" => state \in States

\* Both callbacks were called, each with the state given.
C26_Witness ==
    /\ kind = "user"
    /\ state = "s2"
    /\ Len(passed) = 3
    /\ passed[1].to = "need_data"
    /\ passed[2].to = "enough_data"
    /\ passed[3].to = "need_data"
    /\ passed[3].state = "s2"


\* Thread t waits for a mutex that thread u holds.
WaitsFor(t, u) == tpc[t] \in {"lock1", "lock2"} /\ Wanted(t) # "images" /\ owner[Wanted(t)] = u

\* C27: with need_data called from two threads at once, the entries one call
\* puts in the log are not interleaved with those of another call, no two
\* pushes carry the same frame index, at most one thread is inside the part
\* under the locks, and the two threads never wait for each other.
C27_BurstsAtomic ==
    /\ \A a, b, c \in DOMAIN who :
           (a < b /\ b < c /\ who[a].call = who[c].call) => who[b].call = who[a].call
    /\ \A a, b \in DOMAIN log :
           (a < b /\ IsPush(log[a]) /\ IsPush(log[b])) => log[a].idx # log[b].idx
    /\ \A t, u \in ThreadIds :
           (t # u /\ tpc[t] \in {"body", "push"}) => tpc[u] \notin {"body", "push"}
    /\ \A t, u \in ThreadIds : ~(WaitsFor(t, u) /\ WaitsFor(u, t))

\* Thread 1 is in its burst with the locks and a frame to push, after a
\* whole burst of thread 2, and thread 2 waits for the frame_num mutex.
C27_Witness ==
    /\ kind = "recv"
    /\ tpc[1] = "push"
    /\ tbuf[1].idx = BUFFER_SIZE
    /\ WaitsFor(2, 1)
    /\ Len(Pushes(log)) = BUFFER_SIZE
    /\ \A k \in DOMAIN who : who[k].by = 2


\* C28: for a framerate from 1 to 1000 the timestamps of consecutive frames
\* differ by the same floor(1000 / framerate) milliseconds, which is at least
\* one, so they grow strictly; the part of a millisecond lost per frame adds up.
C28_ConstantStepStrictlyIncreasing ==
    ts.fr \in 1..RateLimit =>
        /\ \A k \in 1..(Len(ts.pts) - 1) :
               /\ ts.pts[k + 1] - ts.pts[k] = 1000 \div ts.fr
               /\ ts.pts[k + 1] > ts.pts[k]
        /\ \A k \in DOMAIN ts.pts :
               (k - 1) * 1000 - ts.fr * ts.pts[k] = (k - 1) * (1000 % ts.fr)

\* Three frames at the framerate 1000 got the timestamps 0, 1 and 2.
C28_Witness ==
    /\ ts.fr = RateLimit
    /\ ts.pts = <<0, 1, 2>>


\* C29: the frames reach the channel in the order State::render captured
\* them: those queued are in the order of their render calls, and so are
\* those already pushed, which all come before the queued ones.
C29_FramesEnqueuedInRenderOrder ==
    /\ \A a, b \in DOMAIN chan : a < b => chan[a] < chan[b]
    /\ \A a, b \in DOMAIN Pushes(log) : a < b => Pushes(log)[a].frame < Pushes(log)[b].frame
    /\ \A a \in DOMAIN Pushes(log) : \A b \in DOMAIN chan : Pushes(log)[a].frame < chan[b]

\* C30: State::close always returns: once it waits in join with every sender
\* dropped and the appsrc still asking for data, either the end of the stream
\* was accepted or the provider is still able to signal it.
C30_CloseAlwaysReturns ==
    (mainPc = "joining" /\ senders = 0 /\ pending = {} /\ evPc = "loop"
        /\ pipeline = "Playing") =>
        (EosAccepted(log) \/ poisoned = {})


\* C31: the fourth byte of every pixel written is determined: 0 from
\* vec_data_provider whatever the source's alpha, and from
\* reciever_data_provider the alpha of the pixel's conversion to Bgra, which is
\* the source's alpha, or 255 for a source pixel without alpha channel.
C31_FourthByteDeterministic ==
    pk.done =>
        \A p \in DOMAIN pk.dest :
            (InFrame(p) /\ SlotOf(p) <= Len(pk.src) /\ (p - 1) % 4 = 3) =>
                LET px == pk.src[SlotOf(p)]
                IN  /\ pk.prov = "vec" => pk.dest[p] = 0
                    /\ (pk.prov = "recv" /\ px.hasA) => pk.dest[p] = px.a
                    /\ (pk.prov = "recv" /\ ~px.hasA) => pk.dest[p] = 255

\* reciever_data_provider packed a half transparent pixel and a pixel without
\* alpha channel: their fourth bytes are 128 and 255.
C31_Witness ==
    /\ pk.done
    /\ pk.prov = "recv"
    /\ pk.width = 2
    /\ Len(pk.src) >= 2
    /\ pk.src[1].hasA /\ pk.src[1].a = 128
    /\ ~pk.src[2].hasA
    /\ pk.dest[4] = 128
    /\ pk.dest[8] = 255

====
